---------------------------- MODULE Spec2Model ----------------------------
(***************************************************************************)
(* Model of load_confounds/parser.py: selection and assembly of fMRIPrep   *)
(* confound regressors according to a denoising strategy.                  *)
(*                                                                         *)
(* Column names are strings, as in the source.  Numeric cells are          *)
(* integers; framewise displacement is in tenths of a millimetre and       *)
(* standardized DVARS in tenths, so that the default thresholds 0.2 and 3  *)
(* are the integers 2 and 30.  A cell is a tagged tuple: Num(v) for a      *)
(* number (held as a fraction in lowest terms), NaN for a missing value,   *)
(* Score(j, r) for the value of principal component j at row r.            *)
(*                                                                         *)
(* A DataFrame is a record [index, columns, values]: the number of rows,   *)
(* the sequence of column labels and the sequence of column vectors.       *)
(* A Python call that may raise returns either Return(v) or Raise(e, c):   *)
(* e is the Python exception type and c the error condition of the         *)
(* message.                                                                *)
(***************************************************************************)
EXTENDS Integers, Sequences, FiniteSets, TLC

VARIABLES
    pc,            \* position of the caller: "start", "constructed", "loaded", "returned", "raised"
    args,          \* arguments of the call under way
    self,          \* attributes of the Confounds object (NoSelf before construction)
    ret,           \* what the last call returned or raised (NoRet before any call)
    hash_order     \* iteration order of the suffix sets of _add_suffix in this process

vars == <<pc, args, self, ret, hash_order>>

-----------------------------------------------------------------------------
(* Bounds of the model *)

MaxScans == 7          \* rows of a table handed to _load_censoring
MaxComp == 3           \* compcor components of each prefix in a sidecar
MaxStrategyLen == 2    \* entries of a strategy
MaxFiles == 2          \* tables of one load call
MaxNMotion == 25       \* largest n_motion tried: one more than the 24 columns of "full"
MotionRows == 26       \* rows of a table handed to _load_motion

-----------------------------------------------------------------------------
(* Python values *)

NoSelf == [constructed |-> FALSE]
NoRet == [called |-> FALSE]
NaN == <<"nan">>
Frac(p, q) == <<"num", p, q>>
Num(v) == Frac(v, 1)
Score(j, r) == <<"pc", j, r>>
IsNum(c) == c[1] = "num"
IsNaN(c) == c[1] = "nan"

\* c > t for a cell c and an integer t; a comparison with NaN is False
Greater(c, t) == IsNum(c) /\ c[2] > t * c[3]

\* Python values whose type varies (n_compcor is an int or "auto", the compcor_mask
\* parameter receives a string or a bool) are tagged with their type
PyStr(x) == <<"str", x>>
PyInt(n) == <<"int", n>>
PyBool(b) == <<"bool", b>>

\* a == b for a Python string a and a tagged value b: False across types
PyStrEq(a, b) == b[1] = "str" /\ b[2] = a

Return(v) == [ok |-> TRUE, val |-> v]
Raise(e, c) == [ok |-> FALSE, exc |-> e, cond |-> c]

Range(a, b) == [i \in 1..(IF b > a THEN b - a ELSE 0) |-> a + i - 1]

SetMin(S) == CHOOSE x \in S : \A y \in S : x <= y

RECURSIVE SortedSeq(_)
SortedSeq(S) ==
    IF S = {} THEN <<>>
    ELSE LET m == SetMin(S) IN <<m>> \o SortedSeq(S \ {m})

Elems(s) == {s[i] : i \in 1..Len(s)}

RECURSIVE Flatten(_)
Flatten(ss) == IF ss = <<>> THEN <<>> ELSE Head(ss) \o Flatten(Tail(ss))

Digits == <<"0", "1", "2", "3", "4", "5", "6", "7", "8", "9">>

RECURSIVE Str(_)
Str(n) == IF n < 10 THEN Digits[n + 1] ELSE Str(n \div 10) \o Digits[(n % 10) + 1]

ZFill2(s) == IF Len(s) < 2 THEN "0" \o s ELSE s

StrIn(key, col) ==
    \E i \in 1..(Len(col) - Len(key) + 1) : SubSeq(col, i, i + Len(key) - 1) = key

-----------------------------------------------------------------------------
(* pandas DataFrame *)

EmptyFrame == [index |-> 0, columns |-> <<>>, values |-> <<>>]

HasColumn(df, name) == \E i \in 1..Len(df.columns) : df.columns[i] = name

ColumnPos(df, name) == CHOOSE i \in 1..Len(df.columns) : df.columns[i] = name

Column(df, name) == df.values[ColumnPos(df, name)]

Select(df, names) ==
    [index |-> df.index,
     columns |-> names,
     values |-> [i \in 1..Len(names) |-> Column(df, names[i])]]

Pad(col, n) == [r \in 1..n |-> IF r <= Len(col) THEN col[r] ELSE NaN]

Concat(a, b) ==
    LET n == IF a.index > b.index THEN a.index ELSE b.index IN
    [index |-> n,
     columns |-> a.columns \o b.columns,
     values |-> [i \in 1..Len(a.values) |-> Pad(a.values[i], n)]
                \o [i \in 1..Len(b.values) |-> Pad(b.values[i], n)]]

-----------------------------------------------------------------------------
(* Column resolution *)

Suffixes == <<"derivative1", "power2", "derivative1_power2">>

suffix(model) ==
    CASE model = "basic" -> {}
      [] model = "derivatives" -> {"derivative1"}
      [] model = "power2" -> {"power2"}
      [] model = "full" -> {"derivative1", "power2", "derivative1_power2"}

\* the suffixes of a model in the order this process iterates the set
SuffixIter(model) == SelectSeq(hash_order, LAMBDA su : su \in suffix(model))

_add_suffix(params, model) ==
    params \o Flatten([i \in 1..Len(params) |->
                 LET su == SuffixIter(model) IN
                 [j \in 1..Len(su) |-> params[i] \o "_" \o su[j]]])

_check_params(confounds_raw, params) ==
    IF \E i \in 1..Len(params) : ~HasColumn(confounds_raw, params[i])
    THEN Raise("ValueError", "MissingParameter")
    ELSE Return("None")

KeyMatches(confounds_raw, key) ==
    SelectSeq(confounds_raw.columns, LAMBDA col : StrIn(key, col))

_find_confounds(confounds_raw, keywords) ==
    IF \E k \in 1..Len(keywords) : KeyMatches(confounds_raw, keywords[k]) = <<>>
    THEN Raise("ValueError", "NoMatchingConfound")
    ELSE Return(Flatten([k \in 1..Len(keywords) |-> KeyMatches(confounds_raw, keywords[k])]))

_load_global(confounds_raw, global_signal) ==
    LET global_params == _add_suffix(<<"global_signal">>, global_signal)
        chk == _check_params(confounds_raw, global_params)
    IN IF ~chk.ok THEN chk ELSE Return(Select(confounds_raw, global_params))

_load_wm_csf(confounds_raw, wm_csf) ==
    LET wm_csf_params == _add_suffix(<<"csf", "white_matter">>, wm_csf)
        chk == _check_params(confounds_raw, wm_csf_params)
    IN IF ~chk.ok THEN chk ELSE Return(Select(confounds_raw, wm_csf_params))

_load_high_pass(confounds_raw) ==
    LET high_pass_params == _find_confounds(confounds_raw, <<"cosine">>)
    IN IF ~high_pass_params.ok THEN high_pass_params
       ELSE Return(Select(confounds_raw, high_pass_params.val))

_load_ica_aroma(confounds_raw) ==
    LET ica_aroma_params == _find_confounds(confounds_raw, <<"aroma">>)
    IN IF ~ica_aroma_params.ok THEN ica_aroma_params
       ELSE Return(Select(confounds_raw, ica_aroma_params.val))

-----------------------------------------------------------------------------
(* Compcor *)

\* line 93 reads compcor_col, a name this function does not define
_select_compcor(compcor_cols, n_compcor, compcor_mask) ==
    IF ~PyStrEq("auto", n_compcor) /\ n_compcor[2] < Len(compcor_cols)
    THEN Raise("NameError", "compcor_col")
    ELSE Return(compcor_cols)

CompcorName(prefix, nn) == prefix \o "_comp_cor_" \o ZFill2(Str(nn))

\* the loop of _label_compcor from index nn on: the retained columns, or the KeyError
\* of confounds_json[compcor_col] for an anatomical name the sidecar does not hold
RECURSIVE LabelLoop(_, _, _, _, _)
LabelLoop(confounds_json, prefix, compcor_mask, nn, n_all) ==
    IF nn >= n_all THEN Return(<<>>)
    ELSE LET compcor_col == CompcorName(prefix, nn)
             rest == LabelLoop(confounds_json, prefix, compcor_mask, nn + 1, n_all)
         IN IF prefix = "t"
            THEN IF rest.ok THEN Return(<<compcor_col>> \o rest.val) ELSE rest
            ELSE IF compcor_col \notin DOMAIN confounds_json
                 THEN Raise("KeyError", "SidecarLookup")
                 ELSE IF ~rest.ok THEN rest
                 ELSE IF prefix = "a"
                          /\ PyStrEq(confounds_json[compcor_col].Mask, compcor_mask)
                      THEN Return(<<compcor_col>> \o rest.val)
                      ELSE rest

_label_compcor(confounds_json, prefix, n_compcor, compcor_mask) ==
    LET all_compcor == {comp \in DOMAIN confounds_json :
                            StrIn(prefix \o "_comp_cor", comp)}
        compcor_cols == LabelLoop(confounds_json, prefix, compcor_mask, 0,
                                  Cardinality(all_compcor))
    IN IF ~compcor_cols.ok THEN compcor_cols
       ELSE _select_compcor(compcor_cols.val, n_compcor, compcor_mask)

\* _load_acompcor with the CSF components put before the WM components
_load_acompcor_csf_first(confounds_json, n_compcor, acompcor_combined) ==
    IF acompcor_combined
    THEN _label_compcor(confounds_json, "a", n_compcor, PyStr("combined"))
    ELSE LET wm == _label_compcor(confounds_json, "a", n_compcor, PyStr("WM"))
             csf == _label_compcor(confounds_json, "a", n_compcor, PyStr("CSF"))
         IN IF ~wm.ok THEN wm
            ELSE IF ~csf.ok THEN csf
            ELSE Return(csf.val \o wm.val)

_load_acompcor(confounds_json, n_compcor, acompcor_combined) ==
    IF acompcor_combined
    THEN _label_compcor(confounds_json, "a", n_compcor, PyStr("combined"))
    ELSE LET wm == _label_compcor(confounds_json, "a", n_compcor, PyStr("WM"))
             csf == _label_compcor(confounds_json, "a", n_compcor, PyStr("CSF"))
         IN IF ~wm.ok THEN wm
            ELSE IF ~csf.ok THEN csf
            ELSE Return(wm.val \o csf.val)

_load_compcor(confounds_raw, confounds_json, compcor, n_compcor, acompcor_combined) ==
    LET compcor_cols ==
            CASE compcor = "anat" ->
                    _load_acompcor(confounds_json, n_compcor, acompcor_combined)
              [] compcor = "temp" ->
                    _label_compcor(confounds_json, "t", n_compcor,
                                   PyBool(acompcor_combined))
              [] compcor = "full" ->
                    LET a == _label_compcor(confounds_json, "a", n_compcor,
                                            PyBool(acompcor_combined))
                        t == _label_compcor(confounds_json, "t", n_compcor,
                                            PyBool(acompcor_combined))
                    IN IF ~a.ok THEN a
                       ELSE IF ~t.ok THEN t
                       ELSE Return(a.val \o t.val)
    IN IF ~compcor_cols.ok THEN compcor_cols
       ELSE LET chk == _check_params(confounds_raw, compcor_cols.val)
            IN IF ~chk.ok THEN chk
               ELSE Return(Select(confounds_raw, compcor_cols.val))

-----------------------------------------------------------------------------
(* Motion *)

\* DataFrame.dropna(): the rows (1-based) without a missing cell
CompleteRows(df) ==
    SortedSeq({r \in 1..df.index : \A i \in 1..Len(df.values) : ~IsNaN(df.values[i][r])})

\* scale() and PCA(n_components).fit_transform(): n_components score columns over
\* the rows handed in (n_components an integer no larger than their number)
FitTransform(n_rows, n_components) ==
    [index |-> n_rows,
     columns |-> [j \in 1..n_components |-> j - 1],
     values |-> [j \in 1..n_components |-> [r \in 1..n_rows |-> Score(j, r)]]]

\* _pca_motion refusing a request for as many components as there are columns
_pca_motion_strict(confounds_motion, n_components) ==
    LET n_available == Len(confounds_motion.columns) IN
    IF n_components >= n_available
    THEN Raise("ValueError", "ComponentCountExceeded")
    ELSE LET motion_pca == FitTransform(Len(CompleteRows(confounds_motion)), n_components)
         IN Return([index |-> motion_pca.index,
                    columns |-> [j \in 1..Len(motion_pca.columns) |->
                                    "motion_pca_" \o Str(motion_pca.columns[j] + 1)],
                    values |-> motion_pca.values])

_pca_motion(confounds_motion, n_components) ==
    LET n_available == Len(confounds_motion.columns) IN
    IF n_components > n_available
    THEN Raise("ValueError", "ComponentCountExceeded")
    ELSE LET motion_pca == FitTransform(Len(CompleteRows(confounds_motion)), n_components)
         IN Return([index |-> motion_pca.index,
                    columns |-> [j \in 1..Len(motion_pca.columns) |->
                                    "motion_pca_" \o Str(motion_pca.columns[j] + 1)],
                    values |-> motion_pca.values])

_load_motion(confounds_raw, motion, n_motion) ==
    LET motion_params ==
            _add_suffix(<<"trans_x", "trans_y", "trans_z", "rot_x", "rot_y", "rot_z">>,
                        motion)
        chk == _check_params(confounds_raw, motion_params)
    IN IF ~chk.ok THEN chk
       ELSE LET confounds_motion == Select(confounds_raw, motion_params)
            IN IF n_motion > 0 THEN _pca_motion(confounds_motion, n_motion)
               ELSE Return(confounds_motion)

-----------------------------------------------------------------------------
(* Censoring *)

\* np.where(column >= thresh)[0]: a cell at the threshold counts as well
WhereGreaterOrEqual(col, thresh) ==
    SortedSeq({r - 1 : r \in {q \in 1..Len(col) :
        IsNum(col[q]) /\ col[q][2] >= thresh * col[q][3]}})

\* np.where(column > thresh)[0]: the 0-based row indices, ascending
WhereGreater(col, thresh) ==
    SortedSeq({r - 1 : r \in {q \in 1..Len(col) : Greater(col[q], thresh)}})

\* np.sort(np.unique(a))
SortUnique(a) == SortedSeq(Elems(a))

\* np.diff(a)
Diff(a) == [i \in 1..(IF Len(a) > 0 THEN Len(a) - 1 ELSE 0) |-> a[i + 1] - a[i]]

\* the loop over short_segments_inds; inds and the indices into outliers are 0-based
RECURSIVE FillSegments(_, _)
FillSegments(outliers, inds) ==
    IF inds = <<>> THEN outliers
    ELSE LET ind == Head(inds) IN
         FillSegments(outliers \o Range(outliers[ind + 1] + 1, outliers[ind + 2]),
                      Tail(inds))

\* _optimize_censoring filling only the interior gaps of index difference below 5
_optimize_censoring_below5(fd_outliers, n_scans) ==
    IF Len(fd_outliers) = 0 THEN Raise("IndexError", "EmptyOutliers")
    ELSE
    LET first == fd_outliers[1]
        s1 == IF first < 5 THEN Range(0, first) \o fd_outliers ELSE fd_outliers
        last == s1[Len(s1)]
        s2 == IF n_scans - (last + 1) < 5 THEN s1 \o Range(last, n_scans) ELSE s1
        fd_outlier_ind_diffs == Diff(s2)
        short_segments_inds ==
            SortedSeq({i - 1 : i \in {q \in 1..Len(fd_outlier_ind_diffs) :
                          fd_outlier_ind_diffs[q] > 1 /\ fd_outlier_ind_diffs[q] < 5}})
    IN Return(SortUnique(FillSegments(s2, short_segments_inds)))

_optimize_censoring(fd_outliers, n_scans) ==
    IF Len(fd_outliers) = 0 THEN Raise("IndexError", "EmptyOutliers")
    ELSE
    LET first == fd_outliers[1]
        s1 == IF first < 5 THEN Range(0, first) \o fd_outliers ELSE fd_outliers
        last == s1[Len(s1)]
        s2 == IF n_scans - (last + 1) < 5 THEN s1 \o Range(last, n_scans) ELSE s1
        fd_outlier_ind_diffs == Diff(s2)
        short_segments_inds ==
            SortedSeq({i - 1 : i \in {q \in 1..Len(fd_outlier_ind_diffs) :
                          fd_outlier_ind_diffs[q] > 1 /\ fd_outlier_ind_diffs[q] < 6}})
    IN Return(SortUnique(FillSegments(s2, short_segments_inds)))

\* np.transpose(np.eye(n_scans)[outliers]).astype(int) as a frame
OneHotFrame(n_scans, outliers) ==
    [index |-> n_scans,
     columns |-> [j \in 1..Len(outliers) |-> j - 1],
     values |-> [j \in 1..Len(outliers) |->
                    [r \in 1..n_scans |-> Num(IF r - 1 = outliers[j] THEN 1 ELSE 0)]]]

_load_censoring(confounds_raw, censoring, fd_thresh, std_dvars_thresh) ==
    IF ~HasColumn(confounds_raw, "framewise_displacement")
           \/ ~HasColumn(confounds_raw, "std_dvars")
    THEN Raise("KeyError", "ColumnLookup")
    ELSE
    LET n_scans == confounds_raw.index
        fd_outliers == WhereGreater(Column(confounds_raw, "framewise_displacement"), fd_thresh)
        dvars_outliers == WhereGreater(Column(confounds_raw, "std_dvars"), std_dvars_thresh)
        combined_outliers == SortUnique(fd_outliers \o dvars_outliers)
        optimized == IF censoring = "optimized"
                     THEN _optimize_censoring(combined_outliers, n_scans)
                     ELSE Return(combined_outliers)
    IN IF ~optimized.ok THEN optimized
       ELSE LET motion_outlier_regressors == OneHotFrame(n_scans, optimized.val)
                column_names == [j \in 1..Len(motion_outlier_regressors.columns) |->
                                    "motion_outlier_" \o Str(j - 1)]
            IN Return([index |-> motion_outlier_regressors.index,
                       columns |-> column_names,
                       values |-> motion_outlier_regressors.values])

-----------------------------------------------------------------------------
(* Input sanitation and conversion *)

all_confounds ==
    <<"motion", "high_pass", "wm_csf", "global", "compcor", "ica_aroma", "censoring">>

\* _sanitize_strategy accepting a set as well as a list
_sanitize_strategy_or_set(strategy) ==
    IF strategy.type \in {"list", "set"}
    THEN IF \E i \in 1..Len(strategy.items) : strategy.items[i] \notin Elems(all_confounds)
         THEN Raise("ValueError", "InvalidStrategy")
         ELSE Return(strategy.items)
    ELSE Raise("ValueError", "InvalidStrategy")

\* a strategy is a Python container [type, items]: only a list is accepted
_sanitize_strategy(strategy) ==
    IF strategy.type = "list"
    THEN IF \E i \in 1..Len(strategy.items) : strategy.items[i] \notin Elems(all_confounds)
         THEN Raise("ValueError", "InvalidStrategy")
         ELSE Return(strategy.items)
    ELSE Raise("ValueError", "InvalidStrategy")

\* the table and the sidecar read from the path confounds_raw; disk is the content
\* of the files (the renaming of a .nii path to its .tsv is not modelled)
_confounds_to_df(disk, confounds_raw) ==
    <<disk[confounds_raw].raw, disk[confounds_raw].json>>

\* _sanitize_confounds wrapping a single input without flagging it
_sanitize_confounds_unflagged(confounds_raw) ==
    LET flag_single == confounds_raw.type \in {"str", "DataFrame"} IN
    IF flag_single THEN <<<<confounds_raw.val>>, FALSE>>
    ELSE <<confounds_raw.val, FALSE>>

\* the argument of load is [type, val]: one path ("str") or a list of paths
_sanitize_confounds(confounds_raw) ==
    LET flag_single == confounds_raw.type \in {"str", "DataFrame"} IN
    IF flag_single THEN <<<<confounds_raw.val>>, flag_single>>
    ELSE <<confounds_raw.val, flag_single>>

RECURSIVE Gcd(_, _)
Gcd(a, b) == IF b = 0 THEN a ELSE Gcd(b, a % b)

Abs(x) == IF x < 0 THEN 0 - x ELSE x

Reduced(p, q) == LET g == Gcd(Abs(p), q) IN Frac(p \div g, q \div g)

RECURSIVE SumCells(_)
SumCells(col) ==
    IF col = <<>> THEN 0
    ELSE (IF IsNum(Head(col)) THEN Head(col)[2] ELSE 0) + SumCells(Tail(col))

\* scale(with_std=False) on one column of whole numbers: the mean over the cells
\* that are not missing is subtracted; component scores are already centered
Demean(col) ==
    LET k == Cardinality({r \in 1..Len(col) : IsNum(col[r])})
        total == SumCells(col)
    IN [r \in 1..Len(col) |->
           IF IsNum(col[r]) THEN Reduced(k * col[r][2] - total, k) ELSE col[r]]

\* an ndarray is <<"ndarray", shape, columns>>; a Python tuple is <<"tuple", a, b>>
NdArray(n_rows, cols) == <<"ndarray", <<n_rows, Len(cols)>>, cols>>
PyTuple(a, b) == <<"tuple", a, b>>

_confounds_to_ndarray(confounds, demean) ==
    LET labels == confounds.columns IN
    IF confounds.index < 2 THEN Raise("IndexError", "RowIndex")
    ELSE LET filled == [i \in 1..Len(confounds.values) |->
                           LET col == confounds.values[i] IN
                           [r \in 1..Len(col) |->
                               IF r = 1 /\ IsNaN(col[1]) THEN col[2] ELSE col[r]]]
         IN IF ~demean THEN Return(PyTuple(NdArray(confounds.index, filled), labels))
            ELSE IF Len(filled) = 0 THEN Raise("ValueError", "ScaleNoFeature")
            ELSE Return(PyTuple(NdArray(confounds.index,
                                        [i \in 1..Len(filled) |-> Demean(filled[i])]),
                                labels))

-----------------------------------------------------------------------------
(* Tables, sidecars and files *)

\* the default thresholds of __init__ (0.2 and 3), in tenths like the cells they are
\* compared with
DefaultFdThresh == 2
DefaultStdDvarsThresh == 30

Models == {"basic", "derivatives", "power2", "full"}

MotionBase == <<"trans_x", "trans_y", "trans_z", "rot_x", "rot_y", "rot_z">>

\* the columns fMRIPrep writes for the given base parameters, in the table's order
Expanded(base) ==
    Flatten([i \in 1..Len(base) |->
        <<base[i]>> \o [j \in 1..Len(Suffixes) |-> base[i] \o "_" \o Suffixes[j]]])

Permutations3 ==
    {<<Suffixes[a], Suffixes[b], Suffixes[c]>> : a, b, c \in 1..3} \cap
    {p \in [1..3 -> Elems(Suffixes)] : Elems(p) = Elems(Suffixes)}

Masks == {"WM", "CSF", "combined"}

NCompcorValues == {PyStr("auto")} \cup {PyInt(n) : n \in 1..(MaxComp + 1)}

CompcorNames(prefix, k) == [i \in 1..k |-> CompcorName(prefix, i - 1)]

\* the sidecar of a run with anatomical components of the given masks, in index
\* order, and n_t temporal components
Sidecar(masks, n_t) ==
    LET a_names == CompcorNames("a", Len(masks))
        t_names == CompcorNames("t", n_t)
    IN [k \in Elems(a_names) \cup Elems(t_names) |->
           IF k \in Elems(a_names)
           THEN [Method |-> "aCompCor",
                 Mask |-> masks[CHOOSE i \in 1..Len(masks) : a_names[i] = k]]
           ELSE [Method |-> "tCompCor"]]

\* a table of the named columns, each with its own numbers; as in fMRIPrep's tables
\* the first row of a derivative column is missing
TableOf(names, n_rows) ==
    [index |-> n_rows,
     columns |-> names,
     values |-> [i \in 1..Len(names) |->
                    [r \in 1..n_rows |->
                        IF r = 1 /\ StrIn("derivative1", names[i]) THEN NaN
                        ELSE Num(10 * i + r)]]]

Without(names, dropped) == SelectSeq(names, LAMBDA c : c # dropped)

WithColumn(df, name, col) ==
    [index |-> df.index,
     columns |-> df.columns,
     values |-> [j \in 1..Len(df.columns) |->
                    IF df.columns[j] = name THEN col ELSE df.values[j]]]

\* the columns of the files: those the basic sub-models need, the derivative of the
\* global signal, two cosine and two ICA-AROMA regressors, the censoring metrics and
\* three compcor components
AllColumns ==
    MotionBase \o <<"csf", "white_matter", "global_signal", "global_signal_derivative1",
                    "cosine00", "cosine01", "aroma_motion_01", "aroma_motion_02",
                    "framewise_displacement", "std_dvars">>
        \o CompcorNames("a", 2) \o CompcorNames("t", 1)

\* a file of n_rows timepoints without the dropped column; its second timepoint is
\* above the displacement threshold and its last above the DVARS threshold
File(dropped, n_rows) ==
    LET names == Without(AllColumns, dropped)
        t0 == TableOf(names, n_rows)
        t1 == IF dropped = "framewise_displacement" THEN t0
              ELSE WithColumn(t0, "framewise_displacement",
                       [r \in 1..n_rows |->
                           IF r = 1 THEN NaN
                           ELSE Num(IF r = 2 THEN DefaultFdThresh + 1
                                    ELSE DefaultFdThresh)])
        t2 == IF dropped = "std_dvars" THEN t1
              ELSE WithColumn(t1, "std_dvars",
                       [r \in 1..n_rows |->
                           IF r = 1 THEN NaN
                           ELSE Num(IF r = n_rows THEN DefaultStdDvarsThresh + 1
                                    ELSE DefaultStdDvarsThresh)])
    IN [raw |-> t2, json |-> Sidecar(<<"combined", "WM">>, 1)]

Files == {"sub-01_desc-confounds_timeseries.tsv",
          "sub-02_desc-confounds_timeseries.tsv"}

\* what the files hold
Disk ==
    [f \in Files |->
        CASE f = "sub-01_desc-confounds_timeseries.tsv" -> File("", 3)
          [] f = "sub-02_desc-confounds_timeseries.tsv" -> File("framewise_displacement", 4)]

-----------------------------------------------------------------------------
(* The Confounds class *)

\* Confounds.__init__: the attributes of the new object, or what the sanitation raises
__init__(a) ==
    LET strategy == _sanitize_strategy(a.strategy) IN
    IF ~strategy.ok THEN strategy
    ELSE Return([constructed |-> TRUE,
                 strategy |-> strategy.val,
                 motion |-> a.motion,
                 n_motion |-> a.n_motion,
                 censoring |-> a.censoring,
                 fd_thresh |-> a.fd_thresh,
                 std_dvars_thresh |-> a.std_dvars_thresh,
                 wm_csf |-> a.wm_csf,
                 global_signal |-> a.global_signal,
                 compcor |-> a.compcor,
                 acompcor_combined |-> a.acompcor_combined,
                 n_compcor |-> a.n_compcor,
                 demean |-> a.demean])

\* the order in which _load_single tests the categories
CategoryOrder ==
    <<"motion", "censoring", "high_pass", "wm_csf", "global", "compcor", "ica_aroma">>

\* the categories loaded in the order the strategy lists them
ActiveCategories_as_listed(obj) == obj.strategy

\* the categories _load_single loads, in the order it loads them
ActiveCategories(obj) ==
    SelectSeq(CategoryOrder, LAMBDA cat : cat \in Elems(obj.strategy))

\* the loader call of one "if ... in self.strategy" block
LoadCategory(obj, cat, confounds_raw, confounds_json) ==
    CASE cat = "motion" -> _load_motion(confounds_raw, obj.motion, obj.n_motion)
      [] cat = "censoring" -> _load_censoring(confounds_raw, obj.censoring,
                                              obj.fd_thresh, obj.std_dvars_thresh)
      [] cat = "high_pass" -> _load_high_pass(confounds_raw)
      [] cat = "wm_csf" -> _load_wm_csf(confounds_raw, obj.wm_csf)
      [] cat = "global" -> _load_global(confounds_raw, obj.global_signal)
      [] cat = "compcor" -> _load_compcor(confounds_raw, confounds_json, obj.compcor,
                                          obj.n_compcor, obj.acompcor_combined)
      [] cat = "ica_aroma" -> _load_ica_aroma(confounds_raw)

\* the blocks of cats concatenated to confounds, left to right, up to the first raise
RECURSIVE LoadBlocks(_, _, _, _, _)
LoadBlocks(obj, cats, confounds_raw, confounds_json, confounds) ==
    IF cats = <<>> THEN Return(confounds)
    ELSE LET AfterLoader(block) ==
                 IF ~block.ok THEN block
                 ELSE LoadBlocks(obj, Tail(cats), confounds_raw, confounds_json,
                                 Concat(confounds, block.val))
         IN AfterLoader(LoadCategory(obj, Head(cats), confounds_raw, confounds_json))

_load_single(obj, file) ==
    LET df == _confounds_to_df(Disk, file)
        AfterBlocks(confounds) ==
            IF ~confounds.ok THEN confounds
            ELSE _confounds_to_ndarray(confounds.val, obj.demean)
    IN AfterBlocks(LoadBlocks(obj, ActiveCategories(obj), df[1], df[2], EmptyFrame))

\* the for loop of load: the lists confounds_out and columns_out, or the first raise
RECURSIVE LoadLoop(_, _)
LoadLoop(obj, files) ==
    IF files = <<>> THEN Return(<<<<>>, <<>>>>)
    ELSE LET AppendBoth(one, rest) ==
                 IF ~one.ok THEN one
                 ELSE IF ~rest.ok THEN rest
                 ELSE Return(<<<<one.val[2]>> \o rest.val[1],
                               <<one.val[3]>> \o rest.val[2]>>)
         IN AppendBoth(_load_single(obj, Head(files)), LoadLoop(obj, Tail(files)))

\* Confounds.load: [ret, obj], what the call returns or raises and the object after it
load(obj, confounds_raw) ==
    LET sane == _sanitize_confounds(confounds_raw)
        flag_single == sane[2]
        AfterLoop(out) ==
            IF ~out.ok THEN [ret |-> out, obj |-> obj]
            ELSE LET confounds_out == IF flag_single THEN out.val[1][1] ELSE out.val[1]
                     columns_out == IF flag_single THEN out.val[2][1] ELSE out.val[2]
                 IN [ret |-> Return(confounds_out),
                     obj |-> [c \in DOMAIN obj \cup {"confounds_", "columns_"} |->
                                 CASE c = "confounds_" -> confounds_out
                                   [] c = "columns_" -> columns_out
                                   [] OTHER -> obj[c]]]
    IN AfterLoop(LoadLoop(obj, sane[1]))

-----------------------------------------------------------------------------
(* Direct calls of _load_censoring on every small table *)

\* cells at the threshold and just above it: the comparison is strict
FdCells == {Num(DefaultFdThresh), Num(DefaultFdThresh + 1)}

\* the std_dvars columns of n cells with at most one cell above the threshold
DvarsColumns(n) ==
    {[r \in 1..n |-> Num(IF r = k THEN DefaultStdDvarsThresh + 1
                         ELSE DefaultStdDvarsThresh)] : k \in 0..n}

CensoringTable(fd, dv) ==
    [index |-> Len(fd),
     columns |-> <<"framewise_displacement", "std_dvars">>,
     values |-> <<fd, dv>>]

\* the column with its first cell missing, as fMRIPrep writes the displacement
FirstMissing(col) == [r \in 1..Len(col) |-> IF r = 1 THEN NaN ELSE col[r]]

\* the default threshold and the next one, which no cell of the tables exceeds
FdThresholds == {DefaultFdThresh, DefaultFdThresh + 1}
StdDvarsThresholds == {DefaultStdDvarsThresh, DefaultStdDvarsThresh + 1}

InitCensoring ==
    /\ pc = "start"
    /\ \E n \in 0..MaxScans :
       \E fd \in [1..n -> FdCells], dv \in DvarsColumns(n), missing \in BOOLEAN :
       \E mode \in {"basic", "optimized"} :
       \E fd_thresh \in FdThresholds, std_dvars_thresh \in StdDvarsThresholds :
           args = [fn |-> "_load_censoring",
                   confounds_raw |->
                       CensoringTable(IF missing THEN FirstMissing(fd) ELSE fd, dv),
                   censoring |-> mode,
                   fd_thresh |-> fd_thresh,
                   std_dvars_thresh |-> std_dvars_thresh]
    /\ self = NoSelf
    /\ ret = NoRet
    /\ hash_order = Suffixes

CallLoadCensoring ==
    /\ pc = "start"
    /\ args.fn = "_load_censoring"
    /\ ret' = _load_censoring(args.confounds_raw, args.censoring,
                              args.fd_thresh, args.std_dvars_thresh)
    /\ pc' = IF ret'.ok THEN "returned" ELSE "raised"
    /\ UNCHANGED <<args, self, hash_order>>

NextCensoring == CallLoadCensoring

SpecCensoring == InitCensoring /\ [][NextCensoring]_vars

\* the timepoints of the table of args that exceed either threshold
InitialOutliers ==
    LET t == args.confounds_raw IN
    {r - 1 : r \in {q \in 1..t.index :
        \/ Greater(t.values[1][q], args.fd_thresh)
        \/ Greater(t.values[2][q], args.std_dvars_thresh)}}

\* the timepoints flagged by the indicator columns of a returned censoring block
FlaggedBy(frame) ==
    {r - 1 : r \in {q \in 1..frame.index :
        \E j \in 1..Len(frame.values) : frame.values[j][q] = Num(1)}}

\* a and b are neighbours in S: both in S, a < b, nothing of S between them
Neighbours(S, a, b) == a \in S /\ b \in S /\ a < b /\ \A c \in S : ~(a < c /\ c < b)

OptimizedReturned ==
    pc = "returned" /\ args.fn = "_load_censoring" /\ args.censoring = "optimized"

\* C2 as stated: in optimized mode no two neighbouring returned outliers are separated
\* by a clean run of fewer than 6 timepoints (runs of 1 to 5 are all absorbed).
C2_Original ==
    OptimizedReturned /\ InitialOutliers # {} =>
        \A a, b \in FlaggedBy(ret.val) :
            Neighbours(FlaggedBy(ret.val), a, b) => (b - a = 1 \/ b - a - 1 >= 6)

\* C2 amended: in optimized mode no two neighbouring returned outliers are separated by
\* a clean run of fewer than 5 timepoints; an interior clean run of exactly 5 timepoints
\* survives, and every interior clean run of 4 or fewer timepoints is entirely marked.
C2_Theorem ==
    OptimizedReturned /\ InitialOutliers # {} =>
        /\ \A a, b \in FlaggedBy(ret.val) :
               Neighbours(FlaggedBy(ret.val), a, b) => (b - a = 1 \/ b - a - 1 >= 5)
        /\ \A a, b \in InitialOutliers :
               Neighbours(InitialOutliers, a, b) =>
                   /\ b - a - 1 = 5 => \A c \in (a + 1)..(b - 1) : c \notin FlaggedBy(ret.val)
                   /\ b - a - 1 <= 4 => \A c \in (a + 1)..(b - 1) : c \in FlaggedBy(ret.val)

\* an optimized call has returned on a table with an interior clean run of exactly 5
C2_Witness ==
    /\ OptimizedReturned
    /\ \E a, b \in InitialOutliers : Neighbours(InitialOutliers, a, b) /\ b - a - 1 = 5

\* C3: with no timepoint above either threshold the censoring loader returns a block of
\* zero indicator columns, in basic and in optimized mode.
C3_Claim ==
    pc # "start" /\ args.fn = "_load_censoring" /\ InitialOutliers = {} =>
        ret.ok /\ Len(ret.val.columns) = 0

BasicDone == pc # "start" /\ args.fn = "_load_censoring" /\ args.censoring = "basic"

\* the j-th smallest element of a set of timepoints
NthOutlier(S, j) == CHOOSE o \in S : Cardinality({p \in S : p < o}) = j - 1

OutlierLabels ==
    <<"motion_outlier_0", "motion_outlier_1", "motion_outlier_2", "motion_outlier_3",
      "motion_outlier_4", "motion_outlier_5", "motion_outlier_6", "motion_outlier_7",
      "motion_outlier_8", "motion_outlier_9">>

\* C11: in basic mode the censoring block has one column per timepoint whose
\* displacement is strictly above fd_thresh or whose standardized DVARS is strictly
\* above std_dvars_thresh, a timepoint above both counted once; the columns are in
\* ascending timepoint order, labeled motion_outlier_0, motion_outlier_1, ..., and the
\* j-th column is 1 at the row of the j-th outlier timepoint and 0 in every other row.
C11_Theorem ==
    BasicDone =>
        /\ ret.ok
        /\ ret.val.index = args.confounds_raw.index
        /\ Len(ret.val.columns) = Cardinality(InitialOutliers)
        /\ Len(ret.val.values) = Cardinality(InitialOutliers)
        /\ \A j \in 1..Len(ret.val.columns) :
               /\ ret.val.columns[j] = OutlierLabels[j]
               /\ \A r \in 1..args.confounds_raw.index :
                      ret.val.values[j][r] =
                          Num(IF r - 1 = NthOutlier(InitialOutliers, j) THEN 1 ELSE 0)

\* a basic call has returned two columns on a table with a timepoint above both
\* thresholds, one above the displacement threshold only and one at both thresholds
C11_Witness ==
    /\ BasicDone /\ pc = "returned"
    /\ LET t == args.confounds_raw
           fd(q) == Greater(t.values[1][q], args.fd_thresh)
           dv(q) == Greater(t.values[2][q], args.std_dvars_thresh)
       IN /\ \E q \in 1..t.index : fd(q) /\ dv(q)
          /\ \E q \in 1..t.index : fd(q) /\ ~dv(q)
          /\ \E q \in 1..t.index :
                 /\ t.values[1][q] = Num(args.fd_thresh)
                 /\ t.values[2][q] = Num(args.std_dvars_thresh)
    /\ Len(ret.val.columns) = 2

-----------------------------------------------------------------------------
(* Direct calls of _select_compcor and _load_compcor on every small sidecar *)

InitSelectCompcor ==
    \E k \in 0..MaxComp, prefix \in {"a", "t"}, n \in NCompcorValues :
        args = [fn |-> "_select_compcor", compcor_cols |-> CompcorNames(prefix, k),
                n_compcor |-> n, compcor_mask |-> PyStr("combined")]

InitLoadCompcor ==
    \E k \in 0..MaxComp, n_t \in 0..MaxComp :
    \E masks \in [1..k -> Masks] :
    \E dropped \in {"", CompcorName("a", 0), CompcorName("t", 0)} :
    \E variant \in {"anat", "temp", "full"}, n \in NCompcorValues, combined \in BOOLEAN :
        args = [fn |-> "_load_compcor",
                confounds_raw |->
                    TableOf(Without(CompcorNames("a", k) \o CompcorNames("t", n_t),
                                    dropped), 2),
                confounds_json |-> Sidecar(masks, n_t),
                compcor |-> variant, n_compcor |-> n, acompcor_combined |-> combined]

InitCompcor ==
    /\ pc = "start"
    /\ InitSelectCompcor \/ InitLoadCompcor
    /\ self = NoSelf
    /\ ret = NoRet
    /\ hash_order = Suffixes

CallSelectCompcor ==
    /\ pc = "start"
    /\ args.fn = "_select_compcor"
    /\ ret' = _select_compcor(args.compcor_cols, args.n_compcor, args.compcor_mask)
    /\ pc' = IF ret'.ok THEN "returned" ELSE "raised"
    /\ UNCHANGED <<args, self, hash_order>>

CallLoadCompcor ==
    /\ pc = "start"
    /\ args.fn = "_load_compcor"
    /\ ret' = _load_compcor(args.confounds_raw, args.confounds_json, args.compcor,
                            args.n_compcor, args.acompcor_combined)
    /\ pc' = IF ret'.ok THEN "returned" ELSE "raised"
    /\ UNCHANGED <<args, self, hash_order>>

NextCompcor == CallSelectCompcor \/ CallLoadCompcor

SpecCompcor == InitCompcor /\ [][NextCompcor]_vars

\* C4: the selection keeps every enumerated column when n_compcor is "auto" or is at
\* least their number, and otherwise returns the first n_compcor of them, in order,
\* without failing.
C4_Claim ==
    pc # "start" /\ args.fn = "_select_compcor" =>
        /\ ret.ok
        /\ ret.val = IF args.n_compcor[1] = "int" /\ args.n_compcor[2] < Len(args.compcor_cols)
                     THEN SubSeq(args.compcor_cols, 1, args.n_compcor[2])
                     ELSE args.compcor_cols

\* what _load_compcor gives for the arguments of args with another variant
VariantBlock(variant) ==
    _load_compcor(args.confounds_raw, args.confounds_json, variant,
                  args.n_compcor, args.acompcor_combined)

\* C5: with variant "full" the block is the block of variant "anat" (for the same
\* combine flag) followed by the block of variant "temp".
C5_Claim ==
    pc # "start" /\ args.fn = "_load_compcor" /\ args.compcor = "full"
        /\ VariantBlock("anat").ok /\ VariantBlock("temp").ok =>
            /\ ret.ok
            /\ ret.val.columns = VariantBlock("anat").val.columns
                                     \o VariantBlock("temp").val.columns

MaskOf(col) == args.confounds_json[col].Mask

\* C6: variant "anat" returns only combined-mask components when acompcor_combined is
\* True; when it is False it returns only WM and CSF components, every WM component
\* before every CSF component.
C6_Theorem ==
    pc = "returned" /\ args.fn = "_load_compcor" /\ args.compcor = "anat" =>
        LET cols == ret.val.columns IN
        IF args.acompcor_combined
        THEN \A i \in 1..Len(cols) : MaskOf(cols[i]) = "combined"
        ELSE /\ \A i \in 1..Len(cols) : MaskOf(cols[i]) \in {"WM", "CSF"}
             /\ \A i, j \in 1..Len(cols) :
                    MaskOf(cols[i]) = "WM" /\ MaskOf(cols[j]) = "CSF" => i < j

\* variant "anat" without combining has returned WM and CSF components from a sidecar
\* that lists a CSF component before a WM component and also holds a combined one
C6_Witness ==
    /\ pc = "returned" /\ args.fn = "_load_compcor" /\ args.compcor = "anat"
    /\ ~args.acompcor_combined
    /\ \E i, j \in 1..Len(ret.val.columns) :
           /\ MaskOf(ret.val.columns[i]) = "WM" /\ MaskOf(ret.val.columns[j]) = "CSF"
           /\ ret.val.columns[j] = CompcorName("a", 0)
    /\ \E k \in DOMAIN args.confounds_json :
           StrIn("a_comp_cor", k) /\ MaskOf(k) = "combined"

-----------------------------------------------------------------------------
(* Direct calls of _load_motion *)

InitMotion ==
    /\ pc = "start"
    /\ \E model \in Models, n \in 0..MaxNMotion :
       \E dropped \in {"", "rot_z", "trans_x_derivative1_power2"} :
           args = [fn |-> "_load_motion",
                   confounds_raw |-> TableOf(Without(Expanded(MotionBase), dropped),
                                             MotionRows),
                   motion |-> model, n_motion |-> n]
    /\ self = NoSelf
    /\ ret = NoRet
    /\ hash_order \in Permutations3

CallLoadMotion ==
    /\ pc = "start"
    /\ args.fn = "_load_motion"
    /\ ret' = _load_motion(args.confounds_raw, args.motion, args.n_motion)
    /\ pc' = IF ret'.ok THEN "returned" ELSE "raised"
    /\ UNCHANGED <<args, self, hash_order>>

NextMotion == CallLoadMotion

SpecMotion == InitMotion /\ [][NextMotion]_vars

\* the motion columns of a sub-model
MotionParams(model) ==
    Elems(MotionBase) \cup
    {MotionBase[i] \o "_" \o su : i \in 1..Len(MotionBase), su \in suffix(model)}

-----------------------------------------------------------------------------
(* A Confounds object is constructed and then asked to load *)

RECURSIVE SeqsUpTo(_, _)
SeqsUpTo(S, n) ==
    IF n = 0 THEN {<<>>}
    ELSE LET shorter == SeqsUpTo(S, n - 1) IN
         shorter \cup {Append(q, x) : q \in shorter, x \in S}

StrategyNames == Elems(all_confounds) \cup {"tissue"}

Strategies ==
    {[type |-> ty, items |-> it] :
        ty \in {"list", "set", "tuple"}, it \in SeqsUpTo(StrategyNames, MaxStrategyLen)}

Init ==
    /\ pc = "start"
    /\ \E st \in Strategies, dm \in BOOLEAN :
           args = [fn |-> "__init__", strategy |-> st, motion |-> "basic", n_motion |-> 0,
                   censoring |-> "basic", fd_thresh |-> DefaultFdThresh,
                   std_dvars_thresh |-> DefaultStdDvarsThresh, wm_csf |-> "basic",
                   global_signal |-> "derivatives", compcor |-> "anat",
                   acompcor_combined |-> TRUE, n_compcor |-> PyStr("auto"),
                   demean |-> dm]
    /\ self = NoSelf
    /\ ret = NoRet
    /\ hash_order = Suffixes

Construct ==
    /\ pc = "start"
    /\ args.fn = "__init__"
    /\ LET made == __init__(args) IN
       IF made.ok
       THEN self' = made.val /\ ret' = Return("None") /\ pc' = "constructed"
       ELSE self' = self /\ ret' = made /\ pc' = "raised"
    /\ UNCHANGED <<args, hash_order>>

Load ==
    /\ pc = "constructed"
    /\ \/ \E f \in Files : args' = [fn |-> "load", confounds_raw |-> [type |-> "str", val |-> f]]
       \/ \E fs \in SeqsUpTo(Files, MaxFiles) :
              args' = [fn |-> "load", confounds_raw |-> [type |-> "list", val |-> fs]]
    /\ \E done \in {load(self, args'.confounds_raw)} :
           /\ self' = done.obj
           /\ ret' = done.ret
           /\ pc' = IF done.ret.ok THEN "returned" ELSE "raised"
    /\ UNCHANGED hash_order

Next == Construct \/ Load

Spec == Init /\ [][Next]_vars

LoadDone == args.fn = "load" /\ pc \in {"returned", "raised"}

SingleLoaded == pc = "returned" /\ args.fn = "load" /\ args.confounds_raw.type = "str"

\* the blocks the loaders of the strategy's categories give for a file, in the order
\* motion, censoring, high_pass, wm_csf, global, compcor, ica_aroma
BlocksInFixedOrder(obj, file) ==
    LET order == <<"motion", "censoring", "high_pass", "wm_csf", "global", "compcor",
                   "ica_aroma">>
        active == SelectSeq(order, LAMBDA cat : cat \in Elems(obj.strategy))
    IN [i \in 1..Len(active) |->
           LoadCategory(obj, active[i], Disk[file].raw, Disk[file].json).val]

RECURSIVE SumColumns(_)
SumColumns(blocks) ==
    IF blocks = <<>> THEN 0 ELSE Len(Head(blocks).columns) + SumColumns(Tail(blocks))

ExactNames(obj, cat) ==
    CASE cat = "motion" -> MotionParams(obj.motion)
      [] cat = "wm_csf" -> {"csf", "white_matter"} \cup
                           {b \o "_" \o su : b \in {"csf", "white_matter"},
                                             su \in suffix(obj.wm_csf)}
      [] cat = "global" -> {"global_signal"} \cup
                           {"global_signal_" \o su : su \in suffix(obj.global_signal)}
      [] cat = "censoring" -> {"framewise_displacement", "std_dvars"}
      [] OTHER -> {}

\* C7: when the table lacks a column that a category of the strategy reads by exact
\* name, the load fails with the MissingParameter condition.
C7_Claim ==
    LoadDone /\ args.confounds_raw.type = "str"
        /\ (\E i \in 1..Len(self.strategy) :
               \E c \in ExactNames(self, self.strategy[i]) :
                   ~HasColumn(Disk[args.confounds_raw.val].raw, c)) =>
        ~ret.ok /\ ret.exc = "ValueError" /\ ret.cond = "MissingParameter"

Constructing == args.fn = "__init__" /\ pc # "start"

KnownItems(strategy) ==
    \A i \in 1..Len(strategy.items) :
        strategy.items[i] \in {"motion", "high_pass", "wm_csf", "global", "compcor",
                               "ica_aroma", "censoring"}

\* C8 as stated: construction fails with InvalidStrategy exactly when the strategy holds
\* a name outside the seven categories or is neither a set nor a list.
C8_Original ==
    Constructing =>
        /\ pc = "raised" <=>
               (~KnownItems(args.strategy) \/ args.strategy.type \notin {"set", "list"})
        /\ pc = "raised" => ret.cond = "InvalidStrategy"
        /\ pc = "constructed" => self.strategy = args.strategy.items

\* C8 amended: construction fails with InvalidStrategy exactly when the strategy holds a
\* name outside the seven categories or is not a list; every list of known categories
\* is accepted and stored as the strategy of the object.
C8_Theorem ==
    Constructing =>
        /\ pc = "raised" <=> (~KnownItems(args.strategy) \/ args.strategy.type # "list")
        /\ pc = "raised" =>
               ~ret.ok /\ ret.exc = "ValueError" /\ ret.cond = "InvalidStrategy"
                   /\ self = NoSelf
        /\ pc = "constructed" => self.strategy = args.strategy.items

\* the construction from a set of two known categories has raised
C8_Witness ==
    /\ Constructing /\ pc = "raised"
    /\ args.strategy.type = "set"
    /\ args.strategy.items = <<"motion", "high_pass">>

\* what loading one file alone gives
Alone(file) == _load_single(self, file).val

\* C10 as stated: a list of k inputs gives the list of the k (matrix, labels) pairs of
\* the inputs, in input order; a single input gives its (matrix, labels) pair.
C10_Original ==
    pc = "returned" /\ args.fn = "load" =>
        LET input == args.confounds_raw IN
        IF input.type = "list"
        THEN /\ Len(ret.val) = Len(input.val)
             /\ \A i \in 1..Len(input.val) : ret.val[i] = Alone(input.val[i])
        ELSE ret.val = Alone(input.val)

\* C10 amended: a list of k inputs returns the list of the k matrices of the inputs, each
\* loaded independently, in input order, and leaves the list of their k label sequences,
\* in the same order, in columns_; a single input returns its matrix, not a one-element
\* list, and leaves its label sequence in columns_; confounds_ is what was returned.
C10_Theorem ==
    pc = "returned" /\ args.fn = "load" =>
        LET input == args.confounds_raw IN
        /\ self.confounds_ = ret.val
        /\ IF input.type = "list"
           THEN /\ Len(ret.val) = Len(input.val)
                /\ Len(self.columns_) = Len(input.val)
                /\ \A i \in 1..Len(input.val) :
                       /\ ret.val[i] = Alone(input.val[i])[2]
                       /\ self.columns_[i] = Alone(input.val[i])[3]
           ELSE /\ ret.val = Alone(input.val)[2]
                /\ self.columns_ = Alone(input.val)[3]

\* a list of two files of different lengths has been loaded
C10_Witness ==
    /\ pc = "returned" /\ args.fn = "load"
    /\ args.confounds_raw.type = "list"
    /\ Len(args.confounds_raw.val) = 2
    /\ ret.val[1][2][1] = 4 /\ ret.val[2][2][1] = 3
    /\ Len(ret.val[1][3]) > 0

=============================================================================
